---- MODULE Spec2Model ----
(***************************************************************************)
(* A model of src/main.py: the persona/job context analysis, the relevance *)
(* scorer, the content extraction with its template fallback, and the      *)
(* document pipeline of main() down to the written output file.            *)
(*                                                                         *)
(* Texts are TLA+ strings handled character by character (SubSeq, Len and  *)
(* \o), so substring tests, regular expressions, lower-casing and the      *)
(* integer conversion are computed and not assumed.  Relevance scores are  *)
(* exact rationals [num, den]; Python computes the same quantities in      *)
(* binary floating point.                                                  *)
(***************************************************************************)
EXTENDS Integers, Sequences, FiniteSets, TLC

VARIABLES
    pc,                   \* position of main(), or of a directly called function
    challenge,            \* the challenge input and the behaviour of the collaborators
    persona_text,         \* main: persona_text
    job_text,             \* main: job_text
    pdf_files,            \* main: pdf_files (indices into challenge.documents)
    context,              \* main: context
    doc_index,            \* process_documents_dynamic: loop position in pdf_files
    processed_documents,  \* process_documents_dynamic: processed_documents
    ranked_sections,      \* main: ranked_sections
    output_data,          \* generate_dynamic_output: output_data
    output_file,          \* the output file on disk
    exit_code,            \* process exit status (Running while main() runs)
    notices,              \* what main() printed that the claims name
    call,                 \* arguments of a directly called function
    result,               \* its return value
    frame                 \* locals of extract_dynamic_content while it runs

vars == <<pc, challenge, persona_text, job_text, pdf_files, context, doc_index,
          processed_documents, ranked_sections, output_data, output_file,
          exit_code, notices, call, result, frame>>

(***************************************************************************)
(* Characters and strings                                                  *)
(***************************************************************************)

Char(s, i) == SubSeq(s, i, i)

UpperChars == "ABCDEFGHIJKLMNOPQRSTUVWXYZ"
LowerChars == "abcdefghijklmnopqrstuvwxyz"
DigitChars == "0123456789"

CharsOf(s) == {Char(s, i) : i \in 1..Len(s)}

UpperSet == CharsOf(UpperChars)
AlphaSet == CharsOf(UpperChars) \cup CharsOf(LowerChars)
DigitSet == CharsOf(DigitChars)
\* \w of the re module, restricted to ASCII
WordSet == AlphaSet \cup DigitSet \cup {"_"}
\* \s of the re module; also what str.strip() and str.split() remove
SpaceSet == {" ", "\t", "\n"}

IndexIn(s, c) == CHOOSE i \in 1..Len(s) : Char(s, i) = c

Min(S) == CHOOSE x \in S : \A y \in S : x <= y

\* the concatenation of pieces[lo..hi], a sequence of strings (by halves, so that
\* the evaluation nests no deeper than the logarithm of the length)
RECURSIVE ConcatRange(_, _, _)
ConcatRange(pieces, lo, hi) ==
    IF lo > hi THEN ""
    ELSE IF lo = hi THEN pieces[lo]
    ELSE LET mid == (lo + hi) \div 2
         IN  ConcatRange(pieces, lo, mid) \o ConcatRange(pieces, mid + 1, hi)

Concat(pieces) == ConcatRange(pieces, 1, Len(pieces))

\* the sum of ints[lo..hi], a sequence of integers
RECURSIVE SumRange(_, _, _)
SumRange(ints, lo, hi) ==
    IF lo > hi THEN 0
    ELSE IF lo = hi THEN ints[lo]
    ELSE LET mid == (lo + hi) \div 2
         IN  SumRange(ints, lo, mid) + SumRange(ints, mid + 1, hi)

Sum(ints) == SumRange(ints, 1, Len(ints))

LowerChar(c) == IF c \in UpperSet THEN Char(LowerChars, IndexIn(UpperChars, c)) ELSE c

\* str.lower()
lower(s) == Concat([i \in 1..Len(s) |-> LowerChar(Char(s, i))])

\* sub in s
Contains(sub, s) ==
    \E i \in 1..(Len(s) - Len(sub) + 1) : SubSeq(s, i, i + Len(sub) - 1) = sub

\* any(word in s for word in words)
AnyIn(words, s) == \E w \in words : Contains(w, s)

AllIn(s, class) == \A i \in 1..Len(s) : Char(s, i) \in class

\* last index of the maximal run of characters of class that starts at i <= Len(s)
RunEnd(s, i, class) ==
    Min({j \in i..Len(s) : j = Len(s) \/ Char(s, j + 1) \notin class})

\* first index >= i whose character is not in class (Len(s) + 1 if none)
SkipWhile(s, i, class) ==
    Min({j \in i..(Len(s) + 1) : j > Len(s) \/ Char(s, j) \notin class})

\* the maximal runs of characters of class in s, in order
Runs(s, class) ==
    LET starts == {i \in 1..Len(s) :
                      Char(s, i) \in class /\ (i = 1 \/ Char(s, i - 1) \notin class)}
        nth(k) == CHOOSE i \in starts : Cardinality({j \in starts : j < i}) = k - 1
    IN  [k \in 1..Cardinality(starts) |->
            SubSeq(s, nth(k), RunEnd(s, nth(k), class))]

\* re.findall(r'\b[a-zA-Z]{3,}\b', s): a match is bounded by \b on both sides,
\* so it is a whole run of word characters made of letters only
IsToken(w) == Len(w) >= 3 /\ AllIn(w, AlphaSet)
FindWords(s) == SelectSeq(Runs(s, WordSet), IsToken)

\* re.findall(r'\b(\d+)\b', s)
IsNumber(w) == AllIn(w, DigitSet)
FindNumbers(s) == SelectSeq(Runs(s, WordSet), IsNumber)

\* int(s) of a string of decimal digits
RECURSIVE IntOf(_)
IntOf(s) ==
    IF s = "" THEN 0
    ELSE 10 * IntOf(SubSeq(s, 1, Len(s) - 1)) + (IndexIn(DigitChars, Char(s, Len(s))) - 1)

\* re.search(r'(\d+)\s*<unit>s?', s): <<group(1)>> of the leftmost match, <<>> if none.
\* \d+ backtracks only to a shorter run of digits, after which a digit follows, so
\* a match at i takes the whole run of digits from i.
UnitMatchAt(s, i, unit) ==
    /\ Char(s, i) \in DigitSet
    /\ LET j == RunEnd(s, i, DigitSet)
           k == SkipWhile(s, j + 1, SpaceSet)
       IN  k + Len(unit) - 1 <= Len(s) /\ SubSeq(s, k, k + Len(unit) - 1) = unit

SearchUnit(s, unit) ==
    LET hits == {i \in 1..Len(s) : UnitMatchAt(s, i, unit)}
    IN  IF hits = {} THEN <<>>
        ELSE <<SubSeq(s, Min(hits), RunEnd(s, Min(hits), DigitSet))>>

(***************************************************************************)
(* DynamicTravelModel: the tables of __init__                              *)
(***************************************************************************)

\* self.travel_keywords ('dining' is listed twice with the same weight)
travel_keywords ==
    [trip |-> 15, travel |-> 15, planning |-> 20, itinerary |-> 18, journey |-> 12,
     vacation |-> 12, holiday |-> 10, tour |-> 14, visit |-> 8, explore |-> 12,
     group |-> 20, friends |-> 18, college |-> 15, student |-> 12, young |-> 10,
     together |-> 8, social |-> 10, party |-> 8, team |-> 8,
     activities |-> 18, experiences |-> 16, adventures |-> 16, attractions |-> 14,
     entertainment |-> 14, nightlife |-> 14, cultural |-> 12, outdoor |-> 10,
     sightseeing |-> 12, excursions |-> 10,
     accommodation |-> 12, hotels |-> 12, restaurants |-> 12, dining |-> 10,
     booking |-> 8, reservations |-> 8, transportation |-> 10,
     tips |-> 16, advice |-> 14, guide |-> 18, recommendations |-> 14,
     suggestions |-> 10, tricks |-> 12, information |-> 8,
     coastal |-> 14, beach |-> 12, sea |-> 8, water |-> 8, mountain |-> 8,
     city |-> 10, urban |-> 8, rural |-> 6, countryside |-> 6,
     culinary |-> 16, cuisine |-> 14, food |-> 12, cooking |-> 10, wine |-> 8,
     restaurant |-> 10, cafe |-> 6,
     packing |-> 14, luggage |-> 8, clothes |-> 6, weather |-> 8,
     documents |-> 8, passport |-> 6, visa |-> 6,
     budget |-> 16, cheap |-> 10, affordable |-> 12, expensive |-> 6,
     cost |-> 8, price |-> 6, money |-> 6]

\* self.content_patterns, in dictionary order; multiplier10 is weight_multiplier * 10
content_patterns ==
    << [keywords |-> <<"guide", "comprehensive", "overview", "introduction">>,
        multiplier10 |-> 15, content_type |-> "overview"],
       [keywords |-> <<"activities", "adventures", "things", "do", "outdoor", "sports">>,
        multiplier10 |-> 14, content_type |-> "activities"],
       [keywords |-> <<"food", "culinary", "cuisine", "dining", "restaurants", "cooking">>,
        multiplier10 |-> 13, content_type |-> "culinary"],
       [keywords |-> <<"hotels", "accommodation", "stay", "lodging", "booking">>,
        multiplier10 |-> 12, content_type |-> "accommodation"],
       [keywords |-> <<"transportation", "travel", "getting", "around", "logistics">>,
        multiplier10 |-> 11, content_type |-> "transportation"],
       [keywords |-> <<"tips", "advice", "tricks", "recommendations", "suggestions">>,
        multiplier10 |-> 13, content_type |-> "tips"],
       [keywords |-> <<"nightlife", "entertainment", "bars", "clubs", "party">>,
        multiplier10 |-> 12, content_type |-> "entertainment"],
       [keywords |-> <<"cultural", "culture", "historical", "history", "heritage">>,
        multiplier10 |-> 11, content_type |-> "cultural"] >>

(***************************************************************************)
(* DynamicTravelModel.analyze_persona_job_context                          *)
(***************************************************************************)

\* the context dictionary as first built; group_size is <<>> while the key is absent
DefaultContext ==
    [persona_type |-> "general", group_type |-> "individual",
     trip_duration |-> "unknown", age_group |-> "adult",
     budget_level |-> "mid-range", activity_preferences |-> <<>>,
     special_requirements |-> <<>>, group_size |-> <<>>]

PersonaType(combined_text) ==
    IF AnyIn({"travel planner", "travel agent", "tour guide"}, combined_text)
        THEN "travel_professional"
    ELSE IF AnyIn({"blogger", "writer", "journalist"}, combined_text)
        THEN "content_creator"
    ELSE IF AnyIn({"business", "corporate", "executive"}, combined_text)
        THEN "business"
    ELSE "general"

GroupType(combined_text) ==
    IF Contains("group", combined_text) THEN "group" ELSE "individual"

\* line 142 searching the combined text instead of job_text
GroupSize_FromCombinedText(combined_text, job) ==
    LET numbers == FindNumbers(combined_text)
    IN  IF Contains("group", combined_text) /\ numbers # <<>>
        THEN <<IntOf(numbers[1])>> ELSE <<>>

\* <<int(numbers[0])>> when 'group' occurs and job_text holds a number, else <<>>
GroupSize(combined_text, job) ==
    LET numbers == FindNumbers(job)
    IN  IF Contains("group", combined_text) /\ numbers # <<>>
        THEN <<IntOf(numbers[1])>> ELSE <<>>

AgeGroup(combined_text) ==
    IF AnyIn({"college", "student", "young", "youth"}, combined_text) THEN "young_adult"
    ELSE IF AnyIn({"family", "children", "kids"}, combined_text) THEN "family"
    ELSE IF AnyIn({"senior", "elderly", "retirement"}, combined_text) THEN "senior"
    ELSE "adult"

\* duration_patterns with the 'long weekend' entry listed before 'weekend'
TripDuration_LongWeekendFirst(combined_text) ==
    LET days == SearchUnit(combined_text, "day")
        weeks == SearchUnit(combined_text, "week")
    IN  IF days # <<>> THEN days[1] \o "_" \o "days"
        ELSE IF weeks # <<>> THEN weeks[1] \o "_" \o "weeks"
        ELSE IF Contains("long weekend", combined_text) THEN "long_weekend"
        ELSE IF Contains("weekend", combined_text) THEN "weekend"
        ELSE "unknown"

\* the loop of lines 162-169 without its break: the last matching pattern stays
TripDuration_LastMatchWins(combined_text) ==
    LET days == SearchUnit(combined_text, "day")
        weeks == SearchUnit(combined_text, "week")
    IN  IF Contains("long weekend", combined_text) THEN "long_weekend"
        ELSE IF Contains("weekend", combined_text) THEN "weekend"
        ELSE IF weeks # <<>> THEN weeks[1] \o "_" \o "weeks"
        ELSE IF days # <<>> THEN days[1] \o "_" \o "days"
        ELSE "unknown"

\* the loop over duration_patterns, in dictionary order, leaving at the first match
TripDuration(combined_text) ==
    LET days == SearchUnit(combined_text, "day")
        weeks == SearchUnit(combined_text, "week")
    IN  IF days # <<>> THEN days[1] \o "_" \o "days"
        ELSE IF weeks # <<>> THEN weeks[1] \o "_" \o "weeks"
        ELSE IF Contains("weekend", combined_text) THEN "weekend"
        ELSE IF Contains("long weekend", combined_text) THEN "long_weekend"
        ELSE "unknown"

BudgetLevel(combined_text) ==
    IF AnyIn({"budget", "cheap", "affordable", "low-cost"}, combined_text) THEN "budget"
    ELSE IF AnyIn({"luxury", "premium", "high-end", "expensive"}, combined_text) THEN "luxury"
    ELSE "mid-range"

\* activity_types, in dictionary order
activity_types ==
    << [activity |-> "adventure",
        keywords |-> {"adventure", "outdoor", "hiking", "sports", "active"}],
       [activity |-> "cultural",
        keywords |-> {"cultural", "museum", "historical", "art", "heritage"}],
       [activity |-> "relaxation",
        keywords |-> {"relax", "spa", "beach", "peaceful", "quiet"}],
       [activity |-> "nightlife",
        keywords |-> {"nightlife", "party", "bars", "clubs", "entertainment"}],
       [activity |-> "culinary",
        keywords |-> {"food", "culinary", "dining", "restaurant", "cooking"}],
       [activity |-> "nature",
        keywords |-> {"nature", "natural", "park", "wildlife", "scenery"}] >>

RECURSIVE ActivityPreferencesFrom(_, _)
ActivityPreferencesFrom(combined_text, k) ==
    IF k > Len(activity_types) THEN <<>>
    ELSE (IF AnyIn(activity_types[k].keywords, combined_text)
          THEN <<activity_types[k].activity>> ELSE <<>>)
         \o ActivityPreferencesFrom(combined_text, k + 1)

analyze_persona_job_context(persona, job) ==
    LET combined_text == lower(persona \o " " \o job)
    IN  [DefaultContext EXCEPT
            !.persona_type = PersonaType(combined_text),
            !.group_type = GroupType(combined_text),
            !.group_size = GroupSize(combined_text, job),
            !.age_group = AgeGroup(combined_text),
            !.trip_duration = TripDuration(combined_text),
            !.budget_level = BudgetLevel(combined_text),
            !.activity_preferences = ActivityPreferencesFrom(combined_text, 1)]

(***************************************************************************)
(* DynamicTravelModel.calculate_dynamic_relevance                          *)
(***************************************************************************)

\* a score is the rational num / den, den > 0
Score(num, den) == [num |-> num, den |-> den]
ScoreLess(a, b) == a.num * b.den < b.num * a.den
ScoreEq(a, b) == a.num * b.den = b.num * a.den
ScoreLeq(a, b) == a.num * b.den <= b.num * a.den
ScoreOfInt(n) == Score(n, 1)

\* the weight one word adds to keyword_score
KeywordWeight_Default1(word) ==
    IF word \in DOMAIN travel_keywords THEN travel_keywords[word] ELSE 1

KeywordWeight(word) ==
    IF word \in DOMAIN travel_keywords THEN travel_keywords[word] ELSE 0

\* keyword_score
KeywordScore(words) == Sum([k \in 1..Len(words) |-> KeywordWeight(words[k])])

\* context_multiplier * 10: 1.0 plus the bonuses of the context
PersonaBonus10(ctx, full_text) ==
    IF ctx.persona_type = "travel_professional"
       /\ AnyIn({"guide", "comprehensive", "planning"}, full_text)
    THEN 3 ELSE 0

GroupBonus10(ctx, full_text) ==
    IF ctx.group_type = "group" /\ AnyIn({"group", "friends", "together"}, full_text)
    THEN 4 ELSE 0

AgeBonus10(ctx, full_text) ==
    IF ctx.age_group = "young_adult"
    THEN (IF AnyIn({"nightlife", "adventure", "budget", "student"}, full_text)
          THEN 3 ELSE 0)
    ELSE IF ctx.age_group = "family"
    THEN (IF AnyIn({"family", "safe", "activities", "educational"}, full_text)
          THEN 3 ELSE 0)
    ELSE 0

BudgetBonus10(ctx, full_text) ==
    IF ctx.budget_level = "budget"
    THEN (IF AnyIn({"budget", "cheap", "affordable", "tips"}, full_text) THEN 2 ELSE 0)
    ELSE IF ctx.budget_level = "luxury"
    THEN (IF AnyIn({"luxury", "premium", "exclusive", "high-end"}, full_text)
          THEN 2 ELSE 0)
    ELSE 0

PreferenceBonus10(preference, full_text) ==
    IF preference = "adventure" /\ AnyIn({"adventure", "outdoor", "active"}, full_text)
        THEN 2
    ELSE IF preference = "cultural"
            /\ AnyIn({"cultural", "museum", "historical"}, full_text)
        THEN 2
    ELSE IF preference = "culinary" /\ AnyIn({"food", "culinary", "restaurant"}, full_text)
        THEN 2
    ELSE IF preference = "nightlife"
            /\ AnyIn({"nightlife", "entertainment", "bars"}, full_text)
        THEN 2
    ELSE 0

RECURSIVE PreferencesBonus10(_, _)
PreferencesBonus10(preferences, full_text) ==
    IF preferences = <<>> THEN 0
    ELSE PreferenceBonus10(Head(preferences), full_text)
         + PreferencesBonus10(Tail(preferences), full_text)

ContextMultiplier10(ctx, full_text) ==
    10 + PersonaBonus10(ctx, full_text) + GroupBonus10(ctx, full_text)
       + AgeBonus10(ctx, full_text) + BudgetBonus10(ctx, full_text)
       + PreferencesBonus10(ctx.activity_preferences, full_text)

\* pattern_matches of one pattern: how many of its keywords occur in full_text
PatternMatches(pattern, full_text) ==
    Cardinality({k \in 1..Len(pattern.keywords) : Contains(pattern.keywords[k], full_text)})

\* pattern_bonus * 2: each match adds weight_multiplier * 5 = multiplier10 / 2
RECURSIVE PatternBonus2From(_, _)
PatternBonus2From(full_text, k) ==
    IF k > Len(content_patterns) THEN 0
    ELSE PatternMatches(content_patterns[k], full_text) * content_patterns[k].multiplier10
         + PatternBonus2From(full_text, k + 1)

PatternBonus2(full_text) == PatternBonus2From(full_text, 1)

\* min(final_score, 100.0)
CapAt100_Missing(score) == score

CapAt100(score) ==
    IF score.num > 100 * score.den THEN Score(100 * score.den, score.den) ELSE score

\* base_score = keyword_score / len(words) * 10, pattern_bonus = PatternBonus2 / 2,
\* final_score = (base_score + pattern_bonus) * context_multiplier
\*             = (20 * keyword_score + PatternBonus2 * len(words)) * ContextMultiplier10
\*               / (20 * len(words))
calculate_dynamic_relevance(text, title, ctx) ==
    IF text = "" /\ title = "" THEN ScoreOfInt(0)
    ELSE LET full_text == lower(title \o " " \o text)
             words == FindWords(full_text)
         IN  IF words = <<>> THEN ScoreOfInt(0)
             ELSE CapAt100(Score((20 * KeywordScore(words)
                                    + PatternBonus2(full_text) * Len(words))
                                  * ContextMultiplier10(ctx, full_text),
                                 20 * Len(words)))

(***************************************************************************)
(* State shared by the specifications                                      *)
(***************************************************************************)

NoChallenge == [input |-> "ok", persona |-> "", job |-> "", documents |-> <<>>]
NoFile == [opened |-> FALSE, closed |-> FALSE, content |-> <<>>]
NoCall == [fn |-> "none"]
NoFrame ==
    [handle |-> "none", text_blocks |-> <<>>, i |-> 1,
     scan |-> [section_found |-> FALSE, extracted_content |-> <<>>, stopped |-> FALSE]]

\* main() has not run past its first lines
MainFresh ==
    /\ pdf_files = <<>>
    /\ context = DefaultContext
    /\ doc_index = 1
    /\ processed_documents = <<>>
    /\ ranked_sections = <<>>
    /\ output_data = <<>>
    /\ output_file = NoFile
    /\ exit_code = <<>>
    /\ notices = <<>>

(***************************************************************************)
(* SpecContext: analyze_persona_job_context on a pair of texts             *)
(***************************************************************************)

ExamplePersona == "Travel blogger"
ExampleJob ==
    "Plan a 4-day trip for a group of 6 college friends to a coastal city, focusing on budget nightlife and food"

PersonaTexts ==
    {"", ExamplePersona, "Travel Planner", "Corporate executive, 12 years",
     "Family of 5", "Senior writer"}

JobTexts ==
    {"", ExampleJob,
     "Plan a trip of 4 days for a group of 10",
     "Organise 2 weeks of hiking for the group",
     "A long weekend in a luxury spa",
     "Weekend party, 3 days at most",
     "Book 7days for 2 kids and the group",
     "Museum tour for students on a budget",
     "Find a quiet park",
     "Group of 08 in room 4b for 1 week",
     "A group tour from room 4b"}

InitContext ==
    /\ pc = "analyze"
    /\ persona_text \in PersonaTexts
    /\ job_text \in JobTexts
    /\ challenge = NoChallenge
    /\ MainFresh
    /\ call = NoCall /\ result = <<>> /\ frame = NoFrame

\* main, line 721
AnalyzeContext ==
    /\ pc = "analyze"
    /\ context' = analyze_persona_job_context(persona_text, job_text)
    /\ pc' = "process"
    /\ UNCHANGED <<challenge, persona_text, job_text, pdf_files, doc_index,
                   processed_documents, ranked_sections, output_data, output_file,
                   exit_code, notices, call, result, frame>>

SpecContext == InitContext /\ [][AnalyzeContext]_vars

(***************************************************************************)
(* SpecRelevance: calculate_dynamic_relevance on a title, a text, a context *)
(***************************************************************************)

\* longest text, in words, that SpecRelevance scores
MaxWords == 2

ScoredWords == {"planning", "group", "Overview", "harbor", "doors"}
ScoredTitles ==
    {"", "Comprehensive", "Budget tips",
     "Family food, nightlife and adventure: a luxury museum"}

JoinWords(ws) == Concat([k \in 1..(2 * Len(ws) - 1) |->
                            IF k % 2 = 1 THEN ws[(k + 1) \div 2] ELSE " "])

ScoredTexts ==
    {JoinWords(ws) : ws \in UNION {[1..n -> ScoredWords] : n \in 0..MaxWords}}

AllPreferences ==
    <<"adventure", "cultural", "relaxation", "nightlife", "culinary", "nature">>

\* contexts that between them enable every bonus of the scorer
ScoredContexts ==
    {[DefaultContext EXCEPT !.persona_type = p, !.group_type = g, !.age_group = ab[1],
                            !.budget_level = ab[2], !.activity_preferences = prefs]
        : p \in {"general", "travel_professional"},
          g \in {"individual", "group"},
          ab \in {<<"adult", "mid-range">>, <<"young_adult", "budget">>,
                  <<"family", "luxury">>},
          prefs \in {<<>>, AllPreferences}}

InitRelevance ==
    /\ pc = "call"
    /\ call \in [fn : {"calculate_dynamic_relevance"}, title : ScoredTitles,
                 text : ScoredTexts, context : ScoredContexts]
    /\ result = <<>>
    /\ challenge = NoChallenge /\ persona_text = "" /\ job_text = ""
    /\ MainFresh
    /\ frame = NoFrame

CallRelevance ==
    /\ pc = "call" /\ call.fn = "calculate_dynamic_relevance"
    /\ result' = <<calculate_dynamic_relevance(call.text, call.title, call.context)>>
    /\ pc' = "returned"
    /\ UNCHANGED <<challenge, persona_text, job_text, pdf_files, context, doc_index,
                   processed_documents, ranked_sections, output_data, output_file,
                   exit_code, notices, call, frame>>

SpecRelevance == InitRelevance /\ [][CallRelevance]_vars

(***************************************************************************)
(* Claims about the scorer and the context analyzer                        *)
(***************************************************************************)

HighestWeight ==
    CHOOSE w \in {travel_keywords[k] : k \in DOMAIN travel_keywords} :
        \A k \in DOMAIN travel_keywords : travel_keywords[k] <= w

\* the tokens of the scored text: title and body, lower-cased
ScoredTokens == FindWords(lower(call.title \o " " \o call.text))

OnlyHighestWeightKeywords ==
    /\ ScoredTokens # <<>>
    /\ \A k \in 1..Len(ScoredTokens) :
          /\ ScoredTokens[k] \in DOMAIN travel_keywords
          /\ travel_keywords[ScoredTokens[k]] = HighestWeight

EveryBonusContext ==
    [DefaultContext EXCEPT !.persona_type = "travel_professional",
                           !.group_type = "group", !.age_group = "young_adult",
                           !.budget_level = "budget",
                           !.activity_preferences = AllPreferences]

\* C1: every relevance score returned lies in [0, 100], and a text whose tokens are
\* all highest-weight keywords scores exactly 100, whatever the context.
C1_ScoreWithinBounds ==
    pc = "returned" =>
        /\ result[1].den > 0
        /\ ScoreLeq(ScoreOfInt(0), result[1])
        /\ ScoreLeq(result[1], ScoreOfInt(100))
        /\ (OnlyHighestWeightKeywords => ScoreEq(result[1], ScoreOfInt(100)))

\* C1 witness: repeated highest-weight keywords under the context with every bonus
\* have been scored, and the score is 100.
C1_Witness ==
    /\ pc = "returned"
    /\ call.title = "" /\ call.text = "planning group"
    /\ call.context = EveryBonusContext
    /\ OnlyHighestWeightKeywords
    /\ ScoreEq(result[1], ScoreOfInt(100))

NoKeywordToken ==
    \A k \in 1..Len(ScoredTokens) : ScoredTokens[k] \notin DOMAIN travel_keywords

NoPatternPhrase ==
    \A p \in 1..Len(content_patterns) :
        \A k \in 1..Len(content_patterns[p].keywords) :
            ~Contains(content_patterns[p].keywords[k],
                      lower(call.title \o " " \o call.text))

\* C2 as stated: a text none of whose tokens is a key of the keyword table scores 0
\* in every context.
C2_NoKeywordScoresZero ==
    (pc = "returned" /\ NoKeywordToken) => ScoreEq(result[1], ScoreOfInt(0))

\* C2 as amended: a text none of whose tokens is a key of the keyword table, and in
\* which no phrase of a content pattern occurs, scores 0 in every context.
C2_NoKeywordNoPatternScoresZero ==
    (pc = "returned" /\ NoKeywordToken /\ NoPatternPhrase)
        => ScoreEq(result[1], ScoreOfInt(0))

\* C2 witness: a text with tokens, none a keyword and no pattern phrase in it, was
\* scored 0 under the context with every bonus.
C2_Witness ==
    /\ pc = "returned"
    /\ ScoredTokens # <<>> /\ NoKeywordToken /\ NoPatternPhrase
    /\ call.context = EveryBonusContext
    /\ ScoreEq(result[1], ScoreOfInt(0))

\* C3: for the persona "Travel blogger" and the 4-day group-of-6 job of the spec, the
\* context is content_creator, group, group_size 6, young_adult, "4_days", budget, with
\* nightlife and culinary among the activity preferences.
C3_ExampleContext ==
    (pc = "process" /\ persona_text = ExamplePersona /\ job_text = ExampleJob) =>
        /\ context.persona_type = "content_creator"
        /\ context.group_type = "group"
        /\ context.group_size = <<6>>
        /\ context.age_group = "young_adult"
        /\ context.trip_duration = "4_days"
        /\ context.budget_level = "budget"
        /\ \A a \in {"nightlife", "culinary"} :
              \E k \in 1..Len(context.activity_preferences) :
                  context.activity_preferences[k] = a

(***************************************************************************)
(* DynamicTravelModel._generate_dynamic_fallback                           *)
(***************************************************************************)

\* ' '.join(parts)
JoinSpace(parts) ==
    Concat([k \in 1..(2 * Len(parts) - 1) |->
               IF k % 2 = 1 THEN parts[(k + 1) \div 2] ELSE " "])

\* s.replace('_', ' ')
ReplaceUnderscores(s) ==
    Concat([i \in 1..Len(s) |-> IF Char(s, i) = "_" THEN " " ELSE Char(s, i)])

\* a sentence appended when cond holds
When(cond, sentence) == IF cond THEN <<sentence>> ELSE <<>>

\* the elif chain that determines section_type
SectionType(title_lower) ==
    IF AnyIn({"guide", "comprehensive", "overview"}, title_lower) THEN "guide"
    ELSE IF AnyIn({"activities", "things", "adventures"}, title_lower) THEN "activities"
    ELSE IF AnyIn({"food", "culinary", "dining", "restaurant"}, title_lower) THEN "culinary"
    ELSE IF AnyIn({"accommodation", "hotels", "stay"}, title_lower) THEN "accommodation"
    ELSE IF AnyIn({"tips", "advice", "packing"}, title_lower) THEN "tips"
    ELSE IF AnyIn({"nightlife", "entertainment", "bars"}, title_lower) THEN "entertainment"
    ELSE IF AnyIn({"transportation", "travel", "getting"}, title_lower) THEN "transportation"
    ELSE "general"

\* context.get('group_size', 'multiple') as formatted into the sentence
GroupSizeText(ctx) ==
    IF ctx.group_size = <<>> THEN "multiple" ELSE ToString(ctx.group_size[1])

HasPreference(ctx, activity) ==
    \E k \in 1..Len(ctx.activity_preferences) : ctx.activity_preferences[k] = activity

GuideParts(title_lower, ctx) ==
    <<"This " \o title_lower \o " provides comprehensive information for planning your trip.">>
    \o When(ctx.group_type = "group",
            "Designed specifically for group travel, with recommendations suitable for "
            \o GroupSizeText(ctx) \o " travelers.")
    \o When(ctx.age_group = "young_adult",
            "Includes budget-friendly options and activities popular with young travelers.")
    \o When(ctx.age_group = "family",
            "Features family-friendly activities, educational experiences, and multi-generational bonding opportunities that cater to different age groups.")

\* line 377 as two tests, the cultural and the family sentence appended separately
ActivitiesParts_SeparateFamily(title_lower, ctx) ==
    <<"Explore a variety of " \o title_lower \o " designed to enhance your travel experience.">>
    \o When(HasPreference(ctx, "adventure"),
            "Features outdoor adventures, active experiences, and thrilling activities perfect for creating lasting memories.")
    \o When(HasPreference(ctx, "cultural"),
            "Includes cultural experiences, historical sites, museums, and local traditions that provide educational value.")
    \o When(ctx.age_group = "family",
            "Includes family activities with educational value.")
    \o When(ctx.group_type = "group",
            "Group-friendly activities that everyone can enjoy together, with options for different skill levels and interests.")
    \o When(Contains("coastal", title_lower) \/ Contains("beach", title_lower),
            "Beach activities include swimming, sunbathing, water sports, and coastal walks. Popular beaches offer amenities like restaurants, equipment rentals, and lifeguard services.")

ActivitiesParts(title_lower, ctx) ==
    <<"Explore a variety of " \o title_lower \o " designed to enhance your travel experience.">>
    \o When(HasPreference(ctx, "adventure"),
            "Features outdoor adventures, active experiences, and thrilling activities perfect for creating lasting memories.")
    \o When(HasPreference(ctx, "cultural") \/ ctx.age_group = "family",
            "Includes cultural experiences, historical sites, museums, and local traditions that provide educational value.")
    \o When(ctx.group_type = "group",
            "Group-friendly activities that everyone can enjoy together, with options for different skill levels and interests.")
    \o When(Contains("coastal", title_lower) \/ Contains("beach", title_lower),
            "Beach activities include swimming, sunbathing, water sports, and coastal walks. Popular beaches offer amenities like restaurants, equipment rentals, and lifeguard services.")

CulinaryParts(title_lower, ctx) ==
    <<"Discover the " \o title_lower \o " that showcase local flavors and dining traditions.",
      "From traditional dishes to modern cuisine, explore cooking classes, food tours, and restaurant recommendations.">>
    \o (IF ctx.budget_level = "budget"
        THEN <<"Includes affordable dining options, local food markets, and budget-friendly restaurants that offer authentic experiences.">>
        ELSE When(ctx.budget_level = "luxury",
                  "Features fine dining establishments, exclusive culinary experiences, and renowned restaurants with exceptional service."))
    \o When(ctx.age_group = "family",
            "Family-friendly restaurants with varied menus, child-appropriate options, and welcoming atmospheres for all ages.")

TipsParts(title_lower, ctx) ==
    <<"Essential " \o title_lower \o " to help you prepare for and enjoy your trip.">>
    \o When(ctx.age_group = "young_adult",
            "Student-friendly tips for budget travel, money-saving strategies, and making the most of your experience.")
    \o When(ctx.group_type = "group",
            "Group travel considerations including coordination tips, shared expenses, and communication strategies.")
    \o When(ctx.age_group = "family",
            "Family travel essentials including packing for different ages, safety considerations, and keeping everyone entertained.")
    \o <<"Packing recommendations include versatile clothing, essential documents, first aid supplies, and items specific to your planned activities.">>

EntertainmentParts(title_lower, ctx) ==
    <<"Experience the vibrant " \o title_lower \o " scene with options ranging from casual to upscale venues.">>
    \o When(ctx.age_group = "young_adult",
            "Popular with college students and young travelers, featuring trendy bars, clubs, live music venues, and social hotspots.")
    \o When(ctx.age_group = "family",
            "Family-appropriate entertainment including cultural performances, festivals, and evening activities suitable for all ages.")
    \o <<"Includes live music venues, entertainment districts, cultural shows, and nighttime activities with something for every taste.">>

\* the else branch: general, and the types with no branch of their own
GeneralParts(title_lower, ctx) ==
    <<"This section covers " \o title_lower \o " with practical information and recommendations.">>
    \o When(ctx.persona_type = "travel_professional",
            "Provides detailed insights for professional travel planning and client recommendations.")
    \o When(ctx.age_group = "family",
            "Includes considerations for traveling with multiple generations and varying interests.")

\* the context-specific closing
ClosingParts(ctx) ==
    IF ctx.trip_duration # "" /\ Contains("days", ctx.trip_duration)
    THEN <<"Perfect for planning a " \o ReplaceUnderscores(ctx.trip_duration)
           \o " itinerary with optimal time management and efficient use of your vacation time.">>
    ELSE When(ctx.trip_duration # "" /\ Contains("weeks", ctx.trip_duration),
              "Ideal for extended " \o ReplaceUnderscores(ctx.trip_duration)
              \o " stays that allow for deeper exploration and immersive experiences.")

\* the chain of lines 364-419 with a branch of its own for accommodation
TypeParts_OwnAccommodation(section_type, title_lower, ctx) ==
    IF section_type = "guide" THEN GuideParts(title_lower, ctx)
    ELSE IF section_type = "activities" THEN ActivitiesParts(title_lower, ctx)
    ELSE IF section_type = "culinary" THEN CulinaryParts(title_lower, ctx)
    ELSE IF section_type = "accommodation"
    THEN <<"Find " \o title_lower \o " that match your budget and travel style.">>
    ELSE IF section_type = "tips" THEN TipsParts(title_lower, ctx)
    ELSE IF section_type = "entertainment" THEN EntertainmentParts(title_lower, ctx)
    ELSE GeneralParts(title_lower, ctx)

TypeParts(section_type, title_lower, ctx) ==
    IF section_type = "guide" THEN GuideParts(title_lower, ctx)
    ELSE IF section_type = "activities" THEN ActivitiesParts(title_lower, ctx)
    ELSE IF section_type = "culinary" THEN CulinaryParts(title_lower, ctx)
    ELSE IF section_type = "tips" THEN TipsParts(title_lower, ctx)
    ELSE IF section_type = "entertainment" THEN EntertainmentParts(title_lower, ctx)
    ELSE GeneralParts(title_lower, ctx)

\* content_parts when the function returns
ContentParts(section_title, ctx) ==
    TypeParts(SectionType(lower(section_title)), lower(section_title), ctx)
    \o ClosingParts(ctx)

generate_dynamic_fallback(section_title, ctx) == JoinSpace(ContentParts(section_title, ctx))

(***************************************************************************)
(* DynamicTravelModel.extract_dynamic_content                              *)
(*                                                                         *)
(* A pdf is what PyMuPDF shows of a document: whether fitz.open raises,    *)
(* its pages (each the texts block[4] of get_text("blocks")), and whether  *)
(* reading a page raises.                                                  *)
(***************************************************************************)

\* the characters of the class [...] of lines 320 and 321, without the ';'
BulletChars == "â€¢Â·"
BulletSet == CharsOf(BulletChars)

\* str.strip()
strip(s) ==
    LET kept == {i \in 1..Len(s) : Char(s, i) \notin SpaceSet}
    IN  IF kept = {} THEN ""
        ELSE SubSeq(s, Min(kept),
                    CHOOSE j \in kept : \A i \in (j + 1)..Len(s) : Char(s, i) \in SpaceSet)

\* str.split(): the maximal runs of characters that are not whitespace
split(s) == Runs(s, CharsOf(s) \ SpaceSet)

\* str.isdigit(), for ASCII text
isdigit(s) == s # "" /\ AllIn(s, DigitSet)

\* re.sub(r'\s+', ' ', s)
CollapseWhitespace(s) ==
    Concat([i \in 1..Len(s) |->
               IF Char(s, i) \notin SpaceSet THEN Char(s, i)
               ELSE IF i > 1 /\ Char(s, i - 1) \in SpaceSet THEN "" ELSE " "])

\* re.sub(r'^[<bullets>;]\s*', '', s)
StripLeadingBullet(s) ==
    IF s # "" /\ Char(s, 1) \in BulletSet \cup {";"}
    THEN SubSeq(s, SkipWhile(s, 2, SpaceSet), Len(s))
    ELSE s

\* re.sub(r'[<bullets>]', '; ', s)
BulletsToSemicolons(s) ==
    Concat([i \in 1..Len(s) |-> IF Char(s, i) \in BulletSet THEN "; " ELSE Char(s, i)])

\* re.sub(r';\s*;', ';', s): the matches are taken left to right and do not overlap
RECURSIVE CollapseSemicolonsFrom(_, _)
CollapseSemicolonsFrom(s, from) ==
    LET hits == {i \in from..Len(s) :
                    /\ Char(s, i) = ";"
                    /\ SkipWhile(s, i + 1, SpaceSet) <= Len(s)
                    /\ Char(s, SkipWhile(s, i + 1, SpaceSet)) = ";"}
    IN  IF hits = {} THEN SubSeq(s, from, Len(s))
        ELSE SubSeq(s, from, Min(hits))
             \o CollapseSemicolonsFrom(s, SkipWhile(s, Min(hits) + 1, SpaceSet) + 1)

CollapseSemicolons(s) == CollapseSemicolonsFrom(s, 1)

\* content_length_target
BaseTarget == 300
GroupTarget == 100
ProfessionalTarget == 150

\* line 285 alone: the target not adjusted to the context
ContentLengthTarget_BaseOnly(ctx) == BaseTarget

ContentLengthTarget(ctx) ==
    BaseTarget
    + (IF ctx.group_type = "group" THEN GroupTarget ELSE 0)
    + (IF ctx.persona_type = "travel_professional" THEN ProfessionalTarget ELSE 0)

MinBlockLength == 20
MinContentLength == 100

\* lines 297-298 alone: the scope decided block by block, the flag not consulted
InScope_PerBlock(section_title, block_text, section_found) ==
    LET title_lower == lower(section_title)
        block_lower == lower(block_text)
        title_words == split(title_lower)
    IN  \/ Contains(title_lower, block_lower)
        \/ \E k \in 1..Len(title_words) :
              Len(title_words[k]) > 3 /\ Contains(title_words[k], block_lower)

\* the condition of lines 297-299 on one block
InScope(section_title, block_text, section_found) ==
    LET title_lower == lower(section_title)
        block_lower == lower(block_text)
        title_words == split(title_lower)
    IN  \/ Contains(title_lower, block_lower)
        \/ \E k \in 1..Len(title_words) :
              Len(title_words[k]) > 3 /\ Contains(title_words[k], block_lower)
        \/ section_found

\* one iteration of the loop over text_blocks; scan holds section_found,
\* extracted_content and whether the loop has left by break
ScanBlock(scan, block, section_title, target) ==
    LET block_text == strip(block)
    IN  IF ~InScope(section_title, block_text, scan.section_found) THEN scan
        ELSE IF strip(lower(block_text)) = strip(lower(section_title))
        THEN [scan EXCEPT !.section_found = TRUE]
        ELSE LET accepted ==
                     IF Len(block_text) > MinBlockLength /\ ~isdigit(block_text)
                     THEN Append(scan.extracted_content, block_text)
                     ELSE scan.extracted_content
             IN  [section_found |-> TRUE,
                  extracted_content |-> accepted,
                  stopped |-> Len(JoinSpace(accepted)) > target]

ScanStart == [section_found |-> FALSE, extracted_content |-> <<>>, stopped |-> FALSE]

\* the loop over text_blocks from block i on
RECURSIVE ScanFrom(_, _, _, _, _)
ScanFrom(scan, text_blocks, i, section_title, target) ==
    IF i > Len(text_blocks) \/ scan.stopped THEN scan
    ELSE ScanFrom(ScanBlock(scan, text_blocks[i], section_title, target),
                  text_blocks, i + 1, section_title, target)

\* lines 318-323
CleanContent(extracted_content) ==
    strip(CollapseSemicolons(BulletsToSemicolons(StripLeadingBullet(
        CollapseWhitespace(JoinSpace(extracted_content))))))

\* lines 317-331 without the two returns of the fallback
ContentResult_NoFallback(extracted_content, section_title, ctx) ==
    CleanContent(extracted_content)

\* lines 317-331: what is returned once the loop has ended
ContentResult(extracted_content, section_title, ctx) ==
    IF extracted_content # <<>>
    THEN IF Len(CleanContent(extracted_content)) < MinContentLength
         THEN generate_dynamic_fallback(section_title, ctx)
         ELSE CleanContent(extracted_content)
    ELSE generate_dynamic_fallback(section_title, ctx)

\* the whole call, as process_documents_dynamic sees it
extract_dynamic_content(pdf, page_num, section_title, ctx) ==
    IF pdf.open_raises THEN generate_dynamic_fallback(section_title, ctx)
    ELSE IF page_num >= Len(pdf.pages) THEN generate_dynamic_fallback(section_title, ctx)
    ELSE IF pdf.read_raises THEN generate_dynamic_fallback(section_title, ctx)
    ELSE ContentResult(
             ScanFrom(ScanStart, pdf.pages[page_num + 1], 1, section_title,
                      ContentLengthTarget(ctx)).extracted_content,
             section_title, ctx)

(***************************************************************************)
(* SpecExtract: extract_dynamic_content, one block of the page at a time   *)
(***************************************************************************)

\* longest page, in blocks, that SpecExtract scans
MaxBlocks == 3

TitleBlock == "Nightlife"
DigitBlock == "  202401012024010120240101  "
NightlifeBlock ==
    "· The nightlife of the old town starts late; bars fill after ten ;; and the clubs by the harbour stay open until sunrise · live music most nights, entry is free before midnight."
PackingBlock ==
    "Packing for the coast is simple: light clothes, a warm layer for the evening, sun cream and a hat, sturdy shoes for the cliff paths, and a copy of your documents kept apart."
SparseBlock ==
    "Packing tips   ·   \n\n   \t   \n      bring      water   \n\n\n          \t\t        and      \n\n      a        map          \n\n       of    the       town."

HarbourBlock ==
    "Nightlife by the harbour: the quay is lined with small bars where local bands play from nine, the fish market turns into a night market on Fridays, the last tram leaves at one and taxis wait by the old customs house; most places take cards, the clubs ask for identity papers and the beach cafes close when the last guest leaves."

PageBlocks ==
    {TitleBlock, DigitBlock, NightlifeBlock, SparseBlock, HarbourBlock}

\* the pages: up to MaxBlocks different blocks, in any order
ExtractPages ==
    UNION {{p \in [1..n -> PageBlocks] : \A i, j \in 1..n : p[i] = p[j] => i = j}
              : n \in 0..MaxBlocks}

ExtractTitles == {"Nightlife", "Packing Tips", "Harbor"}

ExtractContexts ==
    {DefaultContext,
     analyze_persona_job_context(ExamplePersona, "Plan a trip of 4 days for a group of 10 college friends"),
     analyze_persona_job_context("Travel Planner", "Organise 2 weeks for a family group")}

\* the calls: a readable one-page document, with the page index in or out of range,
\* and a document whose open or whose page read raises
ExtractCalls ==
    [fn : {"extract_dynamic_content"},
     pdf : [open_raises : {FALSE}, read_raises : {FALSE}, pages : {<<p>> : p \in ExtractPages}],
     page_num : {0}, section_title : ExtractTitles, context : ExtractContexts]
    \cup
    [fn : {"extract_dynamic_content"},
     pdf : {[open_raises |-> o, read_raises |-> r, pages |-> <<<<NightlifeBlock>>>>]
               : o \in BOOLEAN, r \in BOOLEAN},
     page_num : {0, 1}, section_title : ExtractTitles, context : ExtractContexts]

InitExtract ==
    /\ pc = "call"
    /\ call \in ExtractCalls
    /\ result = <<>>
    /\ frame = NoFrame
    /\ challenge = NoChallenge /\ persona_text = "" /\ job_text = ""
    /\ MainFresh

UnchangedMain ==
    UNCHANGED <<challenge, persona_text, job_text, pdf_files, context, doc_index,
                processed_documents, ranked_sections, output_data, output_file,
                exit_code, notices>>

Fallback == generate_dynamic_fallback(call.section_title, call.context)

\* lines 272-292: open the document, check the page index, read the blocks of the
\* page; any exception is caught at line 333 and answered with the fallback
ExtractOpen ==
    /\ pc = "call" /\ call.fn = "extract_dynamic_content"
    /\ IF call.pdf.open_raises
       THEN /\ result' = <<Fallback>>
            /\ frame' = frame
            /\ pc' = "returned"
       ELSE IF call.page_num >= Len(call.pdf.pages) \/ call.pdf.read_raises
       THEN /\ result' = <<Fallback>>
            /\ frame' = [frame EXCEPT !.handle = "open"]
            /\ pc' = "returned"
       ELSE /\ result' = result
            /\ frame' = [handle |-> "open",
                         text_blocks |-> call.pdf.pages[call.page_num + 1],
                         i |-> 1, scan |-> ScanStart]
            /\ pc' = "scan"
    /\ UNCHANGED call
    /\ UnchangedMain

\* lines 293-313: one iteration of the loop
ExtractScan ==
    /\ pc = "scan"
    /\ frame.i <= Len(frame.text_blocks) /\ ~frame.scan.stopped
    /\ frame' = [frame EXCEPT
                    !.scan = ScanBlock(@, frame.text_blocks[frame.i], call.section_title,
                                       ContentLengthTarget(call.context)),
                    !.i = @ + 1]
    /\ UNCHANGED <<pc, call, result>>
    /\ UnchangedMain

\* lines 315-331: the loop has ended; close the document and return
ExtractReturn ==
    /\ pc = "scan"
    /\ frame.i > Len(frame.text_blocks) \/ frame.scan.stopped
    /\ frame' = [frame EXCEPT !.handle = "closed"]
    /\ result' = <<ContentResult(frame.scan.extracted_content, call.section_title,
                                 call.context)>>
    /\ pc' = "returned"
    /\ UNCHANGED call
    /\ UnchangedMain

NextExtract == ExtractOpen \/ ExtractScan \/ ExtractReturn

SpecExtract == InitExtract /\ [][NextExtract]_vars

\* C4: for a non-empty section title, extract_dynamic_content returns a non-empty
\* string on every path: blocks scanned, page index out of range, no block accepted,
\* cleaned text under 100 characters, and the document open or page read raising.
C4_ContentNeverEmpty ==
    (pc = "returned" /\ call.fn = "extract_dynamic_content" /\ call.section_title # "")
        => result[1] # ""

\* C4 witness: blocks were accepted, their cleaned text is shorter than 100
\* characters, and the call has returned a non-empty (fallback) text.
C4_Witness ==
    /\ pc = "returned" /\ call.fn = "extract_dynamic_content"
    /\ call.section_title # ""
    /\ frame.handle = "closed"
    /\ frame.scan.extracted_content # <<>>
    /\ Len(CleanContent(frame.scan.extracted_content)) < MinContentLength
    /\ result[1] = Fallback /\ result[1] # ""

(***************************************************************************)
(* The pipeline: load_challenge_input, process_documents_dynamic,          *)
(* analyze_and_rank_sections, generate_dynamic_output, main                *)
(***************************************************************************)

\* longest documents list of a challenge input
MaxDocs == 2

\* The files of the PDFs directory: what PDFAnalyzer.analyze_pdf returns for each
\* (title and outline) and what PyMuPDF shows of it.
Catalogue ==
    [guide |->
        [name |-> "guide.pdf", title |-> "Coastal Guide",
         outline |-> << [text |-> "Overview", page |-> 0, level |-> 1],
                        [text |-> "Nightlife", page |-> 0, level |-> 2],
                        [text |-> "Packing Tips", page |-> 1, level |-> 2] >>,
         pdf |-> [open_raises |-> FALSE, read_raises |-> FALSE,
                  pages |-> << <<TitleBlock, NightlifeBlock, PackingBlock>> >>]],
     city |->
        [name |-> "city.pdf", title |-> "City Notes",
         outline |-> << [text |-> "Introduction", page |-> 0, level |-> 1],
                        [text |-> "Harbor walks", page |-> 0, level |-> 1],
                        [text |-> "Group planning", page |-> 2, level |-> 1] >>,
         pdf |-> [open_raises |-> TRUE, read_raises |-> FALSE, pages |-> <<>>]]]

FileIds == DOMAIN Catalogue

\* a documents entry: {"filename": name}, {"name": name} or the plain string name
EntryShapes == {"filename", "name", "plain"}

DocumentLists ==
    UNION {{[k \in 1..n |-> [shape |-> shape, file |-> files[k]]]
               : files \in [1..n -> FileIds], shape \in EntryShapes}
              : n \in 0..MaxDocs}

\* a file is missing from the PDFs directory, makes analyze_pdf raise, or is analysed
FileStates == {"missing", "raises", "ok"}

Challenges ==
    [input : {"ok"},
     persona : {ExamplePersona}, job : {ExampleJob, "Find a quiet park"},
     documents : DocumentLists, files : [FileIds -> FileStates]]
    \cup
    [input : {"missing", "invalid_json"},
     persona : {ExamplePersona}, job : {ExampleJob},
     documents : {<<[shape |-> "filename", file |-> "guide"]>>},
     files : {[f \in FileIds |-> "ok"]}]

Init ==
    /\ pc = "load"
    /\ challenge \in Challenges
    /\ persona_text = "" /\ job_text = ""
    /\ MainFresh
    /\ call = NoCall /\ result = <<>> /\ frame = NoFrame

\* main, lines 788-790: an exception reaches the handler of main
Fatal ==
    /\ pc' = "exited"
    /\ exit_code' = <<1>>

\* load_challenge_input, as called at line 712
LoadChallengeInput ==
    /\ pc = "load"
    /\ IF challenge.input # "ok"
       THEN /\ Fatal
            /\ UNCHANGED <<persona_text, job_text, pdf_files>>
       ELSE /\ persona_text' = challenge.persona
            /\ job_text' = challenge.job
            /\ pdf_files' = SelectSeq([k \in 1..Len(challenge.documents) |->
                                          challenge.documents[k].file],
                                      LAMBDA f : challenge.files[f] # "missing")
            /\ pc' = "analyze"
            /\ UNCHANGED exit_code
    /\ UNCHANGED <<challenge, context, doc_index, processed_documents, ranked_sections,
                   output_data, output_file, notices, call, result, frame>>

\* lines 506-525: one outline entry with its score and its content
EnhancedSection(section, pdf, ctx) ==
    [text |-> section.text, page |-> section.page, level |-> section.level,
     relevance_score |-> calculate_dynamic_relevance(section.text, section.text, ctx),
     dynamic_content |-> extract_dynamic_content(pdf, section.page, section.text, ctx)]

\* lines 498-535: document_structure of one analysed file
DocumentStructure(file, ctx) ==
    [document_name |-> file.name,
     structured_outline |->
        [title |-> file.title,
         outline |-> [k \in 1..Len(file.outline) |->
                         EnhancedSection(file.outline[k], file.pdf, ctx)]]]

\* the loop of lines 496-547 leaving at the first file whose analysis raises
ProcessDocument_StopsAtFailure ==
    /\ pc = "process"
    /\ doc_index <= Len(pdf_files)
    /\ IF challenge.files[pdf_files[doc_index]] = "raises"
       THEN /\ processed_documents' = processed_documents
            /\ doc_index' = Len(pdf_files) + 1
       ELSE /\ processed_documents' =
                  Append(processed_documents,
                         DocumentStructure(Catalogue[pdf_files[doc_index]], context))
            /\ doc_index' = doc_index + 1
    /\ UNCHANGED <<pc, challenge, persona_text, job_text, pdf_files, context,
                   ranked_sections, output_data, output_file, exit_code, notices,
                   call, result, frame>>

\* process_documents_dynamic, lines 496-547: one iteration of the loop; a file
\* whose analysis raises is reported and skipped
ProcessDocument ==
    /\ pc = "process"
    /\ doc_index <= Len(pdf_files)
    /\ processed_documents' =
          IF challenge.files[pdf_files[doc_index]] = "raises"
          THEN processed_documents
          ELSE Append(processed_documents,
                      DocumentStructure(Catalogue[pdf_files[doc_index]], context))
    /\ doc_index' = doc_index + 1
    /\ UNCHANGED <<pc, challenge, persona_text, job_text, pdf_files, context,
                   ranked_sections, output_data, output_file, exit_code, notices,
                   call, result, frame>>

\* main without the check of lines 731-733
ProcessDone_NoCheck ==
    /\ pc = "process"
    /\ doc_index > Len(pdf_files)
    /\ pc' = "rank"
    /\ UNCHANGED <<challenge, persona_text, job_text, pdf_files, context, doc_index,
                   processed_documents, ranked_sections, output_data, output_file,
                   exit_code, notices, call, result, frame>>

\* lines 549-550 and main, lines 729-733: the loop has ended
ProcessDone ==
    /\ pc = "process"
    /\ doc_index > Len(pdf_files)
    /\ IF processed_documents = <<>>
       THEN /\ notices' = Append(notices, "No documents were successfully processed.")
            /\ pc' = "exited"
            /\ exit_code' = <<0>>
       ELSE /\ pc' = "rank"
            /\ UNCHANGED <<notices, exit_code>>
    /\ UNCHANGED <<challenge, persona_text, job_text, pdf_files, context, doc_index,
                   processed_documents, ranked_sections, output_data, output_file,
                   call, result, frame>>

\* lines 576-583: section_dict
SectionDict(document_name, section) ==
    [document_name |-> document_name, page_number |-> section.page,
     section_title |-> section.text, dynamic_content |-> section.dynamic_content,
     level |-> section.level, relevance_score |-> section.relevance_score]

\* lines 560-585: all_sections, document by document, each in outline order
RECURSIVE AllSectionsFrom(_, _)
AllSectionsFrom(documents, d) ==
    IF d > Len(documents) THEN <<>>
    ELSE [k \in 1..Len(documents[d].structured_outline.outline) |->
             SectionDict(documents[d].document_name,
                         documents[d].structured_outline.outline[k])]
         \o AllSectionsFrom(documents, d + 1)

\* sorted(..., key=relevance_score, reverse=True) keeps the order of equal keys:
\* each section goes behind the sections sorted so far that score at least as much
InsertByScore_BeforeEquals(sorted, section) ==
    LET before == SelectSeq(sorted,
                    LAMBDA s : ScoreLess(section.relevance_score, s.relevance_score))
    IN  before \o <<section>> \o SubSeq(sorted, Len(before) + 1, Len(sorted))

InsertByScore(sorted, section) ==
    LET before == SelectSeq(sorted,
                    LAMBDA s : ScoreLeq(section.relevance_score, s.relevance_score))
    IN  before \o <<section>> \o SubSeq(sorted, Len(before) + 1, Len(sorted))

RECURSIVE SortedByScore(_, _)
SortedByScore(sections, n) ==
    IF n = 0 THEN <<>>
    ELSE InsertByScore(SortedByScore(sections, n - 1), sections[n])

analyze_and_rank_sections(documents) ==
    SortedByScore(AllSectionsFrom(documents, 1), Len(AllSectionsFrom(documents, 1)))

\* main, line 740
RankSections ==
    /\ pc = "rank"
    /\ ranked_sections' = analyze_and_rank_sections(processed_documents)
    /\ pc' = "generate"
    /\ UNCHANGED <<challenge, persona_text, job_text, pdf_files, context, doc_index,
                   processed_documents, output_data, output_file, exit_code, notices,
                   call, result, frame>>

\* the number of sections of the output
TopK == 5

\* ranked_sections[:5]
TopSections_NoLimit(ranked) == ranked

TopSections(ranked) == SubSeq(ranked, 1, IF Len(ranked) < TopK THEN Len(ranked) ELSE TopK)

\* lines 629-637
ExtractedSections(top_5_sections) ==
    [i \in 1..Len(top_5_sections) |->
        [document |-> top_5_sections[i].document_name,
         section_title |-> top_5_sections[i].section_title,
         importance_rank |-> i,
         page_number |-> top_5_sections[i].page_number]]

\* lines 640-647, walking the sections from the last to the first
SubsectionAnalysis_Reversed(top_5_sections) ==
    [i \in 1..Len(top_5_sections) |->
        [document |-> top_5_sections[Len(top_5_sections) + 1 - i].document_name,
         refined_text |-> top_5_sections[Len(top_5_sections) + 1 - i].dynamic_content,
         page_number |-> top_5_sections[Len(top_5_sections) + 1 - i].page_number]]

\* lines 640-647
SubsectionAnalysis(top_5_sections) ==
    [i \in 1..Len(top_5_sections) |->
        [document |-> top_5_sections[i].document_name,
         refined_text |-> top_5_sections[i].dynamic_content,
         page_number |-> top_5_sections[i].page_number]]

\* lines 620-626; doc.get raises AttributeError on an entry that is a plain string
MetadataRaises(document_info) ==
    \E k \in 1..Len(document_info) : document_info[k].shape = "plain"

Metadata(document_info, persona, job) ==
    [input_documents |-> [k \in 1..Len(document_info) |->
                             Catalogue[document_info[k].file].name],
     persona |-> persona, job_to_be_done |-> job,
     processing_timestamp |-> "datetime.now().isoformat()"]

\* lines 650-654
OutputData(ranked, document_info, persona, job) ==
    [metadata |-> Metadata(document_info, persona, job),
     extracted_sections |-> ExtractedSections(TopSections(ranked)),
     subsection_analysis |-> SubsectionAnalysis(TopSections(ranked))]

\* generate_dynamic_output, lines 614-654, as called at line 768
GenerateOutput ==
    /\ pc = "generate"
    /\ IF MetadataRaises(challenge.documents)
       THEN /\ Fatal
            /\ UNCHANGED output_data
       ELSE /\ output_data' = <<OutputData(ranked_sections, challenge.documents,
                                           persona_text, job_text)>>
            /\ pc' = "open"
            /\ UNCHANGED exit_code
    /\ UNCHANGED <<challenge, persona_text, job_text, pdf_files, context, doc_index,
                   processed_documents, ranked_sections, output_file, notices,
                   call, result, frame>>

\* what json.dump writes, in the order in which it writes it
Serialize(data) ==
    <<[key |-> "metadata", value |-> data.metadata]>>
    \o [i \in 1..Len(data.extracted_sections) |->
           [key |-> "extracted_sections", value |-> data.extracted_sections[i]]]
    \o [i \in 1..Len(data.subsection_analysis) |->
           [key |-> "subsection_analysis", value |-> data.subsection_analysis[i]]]

\* json.load of a completely written file
Parse(content) ==
    LET values(key) ==
            LET chunks == SelectSeq(content, LAMBDA c : c.key = key)
            IN  [i \in 1..Len(chunks) |-> chunks[i].value]
    IN  [metadata |-> values("metadata")[1],
         extracted_sections |-> values("extracted_sections"),
         subsection_analysis |-> values("subsection_analysis")]

\* line 661: open(output_path, 'w') creates or truncates the file, or raises
OpenOutputFile ==
    /\ pc = "open"
    /\ \E raises \in BOOLEAN :
          IF raises
          THEN Fatal /\ UNCHANGED output_file
          ELSE /\ output_file' = [opened |-> TRUE, closed |-> FALSE, content |-> <<>>]
               /\ pc' = "write"
               /\ UNCHANGED exit_code
    /\ UNCHANGED <<challenge, persona_text, job_text, pdf_files, context, doc_index,
                   processed_documents, ranked_sections, output_data, notices,
                   call, result, frame>>

\* line 662: json.dump writes the next part of the record, or the write raises; the
\* with statement closes the file either way, and the IOError reaches main
WriteOutput ==
    /\ pc = "write"
    /\ Len(output_file.content) < Len(Serialize(output_data[1]))
    /\ \E raises \in BOOLEAN :
          IF raises
          THEN /\ Fatal
               /\ output_file' = [output_file EXCEPT !.closed = TRUE]
          ELSE /\ output_file' =
                    [output_file EXCEPT
                        !.content = Append(@, Serialize(output_data[1])[Len(@) + 1])]
               /\ UNCHANGED <<pc, exit_code>>
    /\ UNCHANGED <<challenge, persona_text, job_text, pdf_files, context, doc_index,
                   processed_documents, ranked_sections, output_data, notices,
                   call, result, frame>>

\* lines 662-667 and main, lines 775-786: the record is written; main returns
FinishOutput ==
    /\ pc = "write"
    /\ Len(output_file.content) = Len(Serialize(output_data[1]))
    /\ output_file' = [output_file EXCEPT !.closed = TRUE]
    /\ pc' = "exited"
    /\ exit_code' = <<0>>
    /\ UNCHANGED <<challenge, persona_text, job_text, pdf_files, context, doc_index,
                   processed_documents, ranked_sections, output_data, notices,
                   call, result, frame>>

Next ==
    \/ LoadChallengeInput
    \/ AnalyzeContext
    \/ ProcessDocument
    \/ ProcessDone
    \/ RankSections
    \/ GenerateOutput
    \/ OpenOutputFile
    \/ WriteOutput
    \/ FinishOutput

Spec == Init /\ [][Next]_vars

(***************************************************************************)
(* Claims about the pipeline                                               *)
(***************************************************************************)

Range(seq) == {seq[i] : i \in 1..Len(seq)}
Count(seq, x) == Cardinality({i \in 1..Len(seq) : seq[i] = x})
WithScore(seq, score) ==
    SelectSeq(seq, LAMBDA s : ScoreEq(s.relevance_score, score))

\* analyze_and_rank_sections has returned
Ranked == pc \in {"generate", "open", "write"} \/ (pc = "exited" /\ ranked_sections # <<>>)

\* the sections of the processed documents in encounter order
Pooled == AllSectionsFrom(processed_documents, 1)

\* C5: the ranked sequence is a permutation of the sections of the processed
\* documents, its scores never increase, and sections of equal score keep their
\* encounter order (document order, then outline order).
C5_RankedStableDescending ==
    Ranked =>
        /\ Len(ranked_sections) = Len(Pooled)
        /\ \A x \in Range(Pooled) \cup Range(ranked_sections) :
              Count(ranked_sections, x) = Count(Pooled, x)
        /\ \A i \in 1..(Len(ranked_sections) - 1) :
              ScoreLeq(ranked_sections[i + 1].relevance_score,
                       ranked_sections[i].relevance_score)
        /\ \A x \in Range(Pooled) :
              WithScore(ranked_sections, x.relevance_score)
                  = WithScore(Pooled, x.relevance_score)

\* C5 witness: the sort moved sections, and two sections of equal score from
\* different documents stand in the ranked sequence.
C5_Witness ==
    /\ Ranked
    /\ ranked_sections # Pooled
    /\ \E i, j \in 1..Len(ranked_sections) :
          /\ i < j
          /\ ScoreEq(ranked_sections[i].relevance_score,
                     ranked_sections[j].relevance_score)
          /\ ranked_sections[i].document_name # ranked_sections[j].document_name
          /\ ScoreLess(ranked_sections[j].relevance_score, ScoreOfInt(100))

\* C6: the output holds min(5, N) extracted sections and as many subsection
\* analyses for N ranked sections, and the importance ranks are 1, 2, ... in order.
C6_TopFiveRanks ==
    output_data # <<>> =>
        LET n == IF Len(ranked_sections) < 5 THEN Len(ranked_sections) ELSE 5
        IN  /\ Len(output_data[1].extracted_sections) = n
            /\ Len(output_data[1].subsection_analysis) = n
            /\ \A i \in 1..n : output_data[1].extracted_sections[i].importance_rank = i

\* C6 witness: more than five sections were ranked and the output was assembled.
C6_Witness ==
    /\ output_data # <<>>
    /\ Len(ranked_sections) > 5
    /\ Len(output_data[1].extracted_sections) = 5

\* the run has ended with the whole record in the output file
OutputWritten == pc = "exited" /\ exit_code = <<0>> /\ output_file.closed

\* C7: in the record read back from the output file, extracted_sections[i] and
\* subsection_analysis[i] both describe the i-th ranked section, the two arrays are
\* equally long, and the entries follow the ranking, scores never increasing.
C7_ArraysAligned ==
    OutputWritten =>
        LET out == Parse(output_file.content)
        IN  /\ Len(out.extracted_sections) = Len(out.subsection_analysis)
            /\ Len(out.extracted_sections) <= Len(ranked_sections)
            /\ \A i \in 1..Len(out.extracted_sections) :
                  /\ out.extracted_sections[i].document = ranked_sections[i].document_name
                  /\ out.extracted_sections[i].page_number = ranked_sections[i].page_number
                  /\ out.extracted_sections[i].section_title
                        = ranked_sections[i].section_title
                  /\ out.subsection_analysis[i].document = ranked_sections[i].document_name
                  /\ out.subsection_analysis[i].page_number
                        = ranked_sections[i].page_number
                  /\ out.subsection_analysis[i].refined_text
                        = ranked_sections[i].dynamic_content
                  /\ i > 1 => ScoreLeq(ranked_sections[i].relevance_score,
                                       ranked_sections[i - 1].relevance_score)

\* C7 witness: a record with sections of two documents was written and read back.
C7_Witness ==
    /\ OutputWritten
    /\ \E i, j \in 1..Len(Parse(output_file.content).subsection_analysis) :
          Parse(output_file.content).subsection_analysis[i].document
              # Parse(output_file.content).subsection_analysis[j].document

\* the files of pdf_files whose analysis does not raise, in order
AnalysedFiles == SelectSeq(pdf_files, LAMBDA f : challenge.files[f] = "ok")

\* C8: once the loop over the documents has ended, the processed documents are the
\* non-raising ones, in order and each with all its outline entries, also those
\* listed after a raising one; the ranked output holds no section of a raising
\* document and every section of the others.
C8_RaisingDocumentsSkipped ==
    /\ (pc \in {"rank", "generate", "open", "write"}
        \/ (pc = "exited" /\ challenge.input = "ok")) =>
          /\ Len(processed_documents) = Len(AnalysedFiles)
          /\ \A d \in 1..Len(processed_documents) :
                /\ processed_documents[d].document_name = Catalogue[AnalysedFiles[d]].name
                /\ Len(processed_documents[d].structured_outline.outline)
                      = Len(Catalogue[AnalysedFiles[d]].outline)
                /\ \A k \in 1..Len(Catalogue[AnalysedFiles[d]].outline) :
                      processed_documents[d].structured_outline.outline[k].text
                          = Catalogue[AnalysedFiles[d]].outline[k].text
    /\ Ranked =>
          \A f \in FileIds :
              \A k \in 1..Len(Catalogue[f].outline) :
                  Cardinality({i \in 1..Len(ranked_sections) :
                                  /\ ranked_sections[i].document_name = Catalogue[f].name
                                  /\ ranked_sections[i].section_title
                                        = Catalogue[f].outline[k].text})
                      = IF challenge.files[f] = "ok" THEN Count(pdf_files, f) ELSE 0

\* C8 witness: a raising document is listed first, a sound one after it, and the
\* sections of the second have been ranked.
C8_Witness ==
    /\ Ranked
    /\ Len(pdf_files) = 2
    /\ challenge.files[pdf_files[1]] = "raises"
    /\ challenge.files[pdf_files[2]] = "ok"
    /\ Len(ranked_sections) = Len(Catalogue[pdf_files[2]].outline)

NoDocumentsNotice == "No documents were successfully processed."

\* C9: a run that ends with no document processed, after the input was loaded, ends
\* with status 0 after the notice and without touching the output file; the output
\* file is opened only when at least one document was processed.
C9_NoDocumentsNoOutput ==
    /\ (pc = "exited" /\ challenge.input = "ok" /\ processed_documents = <<>>) =>
          /\ exit_code = <<0>>
          /\ notices = <<NoDocumentsNotice>>
          /\ ~output_file.opened
    /\ (pc \notin {"load", "analyze", "process"} /\ processed_documents = <<>>) =>
          pc = "exited"
    /\ output_file.opened => processed_documents # <<>>

\* C9 witness: documents were listed and found, every one of them failed, and the
\* run has ended with status 0.
C9_Witness ==
    /\ pc = "exited"
    /\ Len(pdf_files) = 2
    /\ \A k \in 1..Len(pdf_files) : challenge.files[pdf_files[k]] = "raises"
    /\ exit_code = <<0>>
    /\ notices = <<NoDocumentsNotice>>
    /\ ~output_file.opened

\* C10: a run that ends in a fatal error leaves no partially written output file:
\* the file was not opened by the run, or it holds the complete record.
C10_NoPartialOutput ==
    exit_code = <<1>> =>
        \/ ~output_file.opened
        \/ output_file.content = Serialize(output_data[1])


\* the names of the documents entries of the challenge input, in order
EntryNames == [k \in 1..Len(challenge.documents) |-> Catalogue[challenge.documents[k].file].name]

\* C11: whatever the shape of the documents entries (object with filename, object
\* with name, plain string), a run that loaded its input and processed at least one
\* document assembles the output record, with metadata.input_documents listing the
\* name of every entry; the shape alone never ends the run in a fatal error.
C11_EntryShapeNeverFatal ==
    (pc = "exited" /\ challenge.input = "ok" /\ processed_documents # <<>>) =>
        /\ output_data # <<>>
        /\ output_data[1].metadata.input_documents = EntryNames


(***************************************************************************)
(* Claims about the context analyzer                                       *)
(***************************************************************************)

\* analyze_persona_job_context has returned into context
Analysed == pc = "process"

\* the text the patterns are searched in
CombinedText == lower(persona_text \o " " \o job_text)

\* s[i..j] matched by (\d+)\s*<unit>: digits s[i..j], then white space, then unit
DurationMatch(s, unit, i, j) ==
    /\ i <= j
    /\ AllIn(SubSeq(s, i, j), DigitSet)
    /\ \E k \in (j + 1)..(Len(s) - Len(unit) + 1) :
          /\ AllIn(SubSeq(s, j + 1, k - 1), SpaceSet)
          /\ SubSeq(s, k, k + Len(unit) - 1) = unit

DurationStarts(s, unit) ==
    {i \in 1..Len(s) : Char(s, i) \in DigitSet /\ \E j \in i..Len(s) : DurationMatch(s, unit, i, j)}

\* group(1) of the leftmost match, the digits taken greedily
DurationDigits(s, unit) ==
    LET i == CHOOSE a \in DurationStarts(s, unit) : \A b \in DurationStarts(s, unit) : a <= b
        j == CHOOSE a \in i..Len(s) :
                 /\ DurationMatch(s, unit, i, a)
                 /\ \A b \in i..Len(s) : DurationMatch(s, unit, i, b) => b <= a
    IN  SubSeq(s, i, j)

\* C12: trip_duration comes from the first of the patterns "<int> day(s)",
\* "<int> week(s)", "weekend", "long weekend" that matches the lower-cased combined
\* text, as "<int>_days", "<int>_weeks", "weekend", "long_weekend"; it is "unknown"
\* when none matches, and a later pattern never overrides an earlier match.
C12_FirstDurationPatternWins ==
    Analysed =>
        LET s == CombinedText
            days == DurationStarts(s, "day") # {}
            weeks == DurationStarts(s, "week") # {}
            weekend == Contains("weekend", s)
            long_weekend == Contains("long weekend", s)
        IN  /\ days => context.trip_duration = DurationDigits(s, "day") \o "_days"
            /\ (~days /\ weeks) =>
                  context.trip_duration = DurationDigits(s, "week") \o "_weeks"
            /\ (~days /\ ~weeks /\ weekend) => context.trip_duration = "weekend"
            /\ (~days /\ ~weeks /\ ~weekend /\ long_weekend) =>
                  context.trip_duration = "long_weekend"
            /\ (~days /\ ~weeks /\ ~weekend /\ ~long_weekend) =>
                  context.trip_duration = "unknown"

\* C12 witness: a text matched by the days pattern and by the weekend pattern has
\* been analysed, and the days pattern gave the result.
C12_Witness ==
    /\ Analysed
    /\ DurationStarts(CombinedText, "day") # {}
    /\ Contains("weekend", CombinedText)
    /\ context.trip_duration = "3_days"


\* s[i..j] matched by \b(\d+)\b: a run of digits with no word character on either side
IntegerLiteral(s, i, j) ==
    /\ i <= j
    /\ AllIn(SubSeq(s, i, j), DigitSet)
    /\ (i = 1 \/ Char(s, i - 1) \notin WordSet)
    /\ (j = Len(s) \/ Char(s, j + 1) \notin WordSet)

IntegerLiterals(s) ==
    {p \in (1..Len(s)) \X (1..Len(s)) :
        Char(s, p[1]) \in DigitSet /\ IntegerLiteral(s, p[1], p[2])}

FirstIntegerLiteral(s) ==
    LET p == CHOOSE a \in IntegerLiterals(s) : \A b \in IntegerLiterals(s) : a[1] <= b[1]
    IN  SubSeq(s, p[1], p[2])

\* C13: group_size is recorded if and only if "group" occurs in the combined text
\* and job_text holds an integer literal; the value is the first integer literal of
\* job_text, and an integer of persona_text is never used.
C13_GroupSizeFromJobText ==
    Analysed =>
        /\ context.group_size # <<>>
              <=> (Contains("group", CombinedText) /\ IntegerLiterals(job_text) # {})
        /\ context.group_size # <<>> =>
              context.group_size = <<IntOf(FirstIntegerLiteral(job_text))>>

\* C13 witness: persona_text holds an integer literal, job_text holds "group" and
\* other integers, and the first integer of job_text was recorded.
C13_Witness ==
    /\ Analysed
    /\ IntegerLiterals(persona_text) # {}
    /\ IntegerLiterals(job_text) # {}
    /\ IntOf(FirstIntegerLiteral(persona_text)) # IntOf(FirstIntegerLiteral(job_text))
    /\ context.group_size = <<IntOf(FirstIntegerLiteral(job_text))>>


(***************************************************************************)
(* Claims about the block scan of extract_dynamic_content                  *)
(***************************************************************************)

\* the block the next iteration of the loop scans, stripped
ScannedBlock == strip(frame.text_blocks[frame.i])

\* the block holds the section title or a word of it longer than 3 characters
NamesSection(section_title, block_text) == InScope(section_title, block_text, FALSE)

\* an in-scope block is kept: it is not the title itself, is longer than 20
\* characters and is not made of digits
Acceptable(section_title, block_text) ==
    /\ strip(lower(block_text)) # strip(lower(section_title))
    /\ Len(block_text) > 20
    /\ ~isdigit(block_text)

\* one iteration of the loop is taken
ScanStep == pc = "scan" /\ pc' = "scan" /\ frame'.i = frame.i + 1

\* C14: the scope flag only moves from searching to in-scope; it is set by a block
\* that holds the title or a title word longer than 3 characters; from then on every
\* scanned block is handled as in scope, and a block scanned while the flag stays at
\* searching is never accepted.
C14_ScopeSticky ==
    [][ScanStep =>
          LET names == NamesSection(call.section_title, ScannedBlock)
              found == frame.scan.section_found
              content == frame.scan.extracted_content
          IN  /\ found => frame'.scan.section_found
              /\ names => frame'.scan.section_found
              /\ (~found /\ ~names) =>
                    /\ ~frame'.scan.section_found
                    /\ frame'.scan.extracted_content = content
              /\ (found \/ names) =>
                    frame'.scan.extracted_content =
                        IF Acceptable(call.section_title, ScannedBlock)
                        THEN Append(content, ScannedBlock) ELSE content]_vars

\* C14 witness: the first block was passed over while searching, the second named
\* the section, and the third, which does not name it, was accepted after it.
C14_Witness ==
    /\ pc = "scan"
    /\ frame.i = 4
    /\ ~NamesSection(call.section_title, strip(frame.text_blocks[1]))
    /\ NamesSection(call.section_title, strip(frame.text_blocks[2]))
    /\ ~NamesSection(call.section_title, strip(frame.text_blocks[3]))
    /\ frame.scan.section_found
    /\ frame.scan.extracted_content
          = <<strip(frame.text_blocks[2]), strip(frame.text_blocks[3])>>


\* the text accepted so far, as line 312 measures it
AcceptedText == JoinSpace(frame.scan.extracted_content)

\* the target length of the call in progress
ExpectedTarget ==
    300 + (IF call.context.group_type = "group" THEN 100 ELSE 0)
        + (IF call.context.persona_type = "travel_professional" THEN 150 ELSE 0)

\* C15: the target is 300, plus 100 for a group, plus 150 for a travel professional;
\* the scan has stopped exactly when the space-joined accepted text is longer than
\* the target, nothing is accepted after that, and the accepted text without its
\* last block is never longer than the target.
C15_StopsPastTarget ==
    /\ [](call.fn = "extract_dynamic_content" =>
            /\ frame.scan.stopped <=> Len(AcceptedText) > ExpectedTarget
            /\ frame.scan.extracted_content # <<>> =>
                  Len(JoinSpace(SubSeq(frame.scan.extracted_content, 1,
                                       Len(frame.scan.extracted_content) - 1)))
                      <= ExpectedTarget)
    /\ [][(call.fn = "extract_dynamic_content" /\ Len(AcceptedText) > ExpectedTarget) =>
             frame'.scan.extracted_content = frame.scan.extracted_content]_vars

\* C15 witness: a group's scan went past 300 characters without stopping, stopped
\* past 400 with a block of the page still unscanned, and the call has returned.
C15_Witness ==
    /\ pc = "returned" /\ call.fn = "extract_dynamic_content"
    /\ ExpectedTarget = 400
    /\ frame.scan.stopped
    /\ frame.i <= Len(frame.text_blocks)
    /\ Len(frame.scan.extracted_content) >= 2
    /\ Len(JoinSpace(SubSeq(frame.scan.extracted_content, 1,
                            Len(frame.scan.extracted_content) - 1))) > 300


(***************************************************************************)
(* SpecFallback: _generate_dynamic_fallback on a title and a Context       *)
(***************************************************************************)

FallbackTitles ==
    {"Harbor", "Overview", "Beach activities", "Local food", "Hotels",
     "Where to stay", "Packing Tips", "Nightlife", "Travel passes"}

FallbackContexts ==
    {DefaultContext,
     analyze_persona_job_context(ExamplePersona, ExampleJob),
     analyze_persona_job_context("Family of 5",
         "Plan 3 days of cultural museum visits and outdoor hiking for the group"),
     analyze_persona_job_context("Travel Planner", "Organise 2 weeks for a family group"),
     analyze_persona_job_context("Travel Planner", "A long weekend in a luxury spa"),
     analyze_persona_job_context("Senior writer", "Cheap food for 10 days"),
     analyze_persona_job_context("", "Museum tour for students on a budget"),
     analyze_persona_job_context("Corporate executive, 12 years", "Luxury dining with kids")}

FallbackCalls ==
    [fn : {"_generate_dynamic_fallback"}, section_title : FallbackTitles,
     context : FallbackContexts]

InitFallback ==
    /\ pc = "call"
    /\ call \in FallbackCalls
    /\ result = <<>>
    /\ frame = NoFrame
    /\ challenge = NoChallenge /\ persona_text = "" /\ job_text = ""
    /\ MainFresh

\* lines 337-429: the call returns the joined content_parts
CallFallback ==
    /\ pc = "call" /\ call.fn = "_generate_dynamic_fallback"
    /\ result' = <<generate_dynamic_fallback(call.section_title, call.context)>>
    /\ pc' = "returned"
    /\ UNCHANGED <<call, frame>>
    /\ UnchangedMain

SpecFallback == InitFallback /\ [][CallFallback]_vars

\* _generate_dynamic_fallback has returned
FallbackReturned == pc = "returned" /\ call.fn = "_generate_dynamic_fallback"

\* the templates appended to content_parts by the call
AppendedParts == ContentParts(call.section_title, call.context)

\* the sentences of a text: its full stops followed by a space or by the end
Sentences(text) ==
    Cardinality({i \in 1..Len(text) :
                    Char(text, i) = "." /\ (i = Len(text) \/ Char(text, i + 1) = " ")})

\* the first words of the opening templates, in the order of the branches
Openings ==
    <<"This ", "Explore a variety of ", "Discover the ", "Essential ",
      "Experience the vibrant ", "This section covers ">>

StartsWith(text, prefix) ==
    Len(prefix) <= Len(text) /\ SubSeq(text, 1, Len(prefix)) = prefix

EndsWith(text, suffix) ==
    Len(suffix) <= Len(text) /\ SubSeq(text, Len(text) - Len(suffix) + 1, Len(text)) = suffix

\* the text opens with an opening template, closes with the closing template of a
\* duration in days or weeks, and its parts are joined by single spaces
FixedOrderSingleSpaces ==
    /\ \E k \in 1..Len(Openings) : StartsWith(result[1], Openings[k])
    /\ Contains("days", call.context.trip_duration) =>
          EndsWith(result[1], "efficient use of your vacation time.")
    /\ Contains("weeks", call.context.trip_duration) =>
          EndsWith(result[1], "deeper exploration and immersive experiences.")
    /\ ~Contains("  ", result[1])
    /\ Len(result[1]) = Sum([k \in 1..Len(AppendedParts) |-> Len(AppendedParts[k])])
                        + Len(AppendedParts) - 1

\* C16 as stated: the fallback text is made of at least 2 and at most 5 template
\* sentences, appended in a fixed order and joined with single spaces.
C16_TwoToFiveSentences ==
    FallbackReturned =>
        /\ Len(AppendedParts) >= 2 /\ Len(AppendedParts) <= 5
        /\ FixedOrderSingleSpaces

\* C16 amended: the fallback text is made of at least 1 and at most 6 templates, at
\* most 7 sentences, appended in a fixed order and joined with single spaces.
C16_OneToSixTemplates ==
    FallbackReturned =>
        /\ Len(AppendedParts) >= 1 /\ Len(AppendedParts) <= 6
        /\ Sentences(result[1]) >= Len(AppendedParts)
        /\ Sentences(result[1]) <= 7
        /\ FixedOrderSingleSpaces

\* C16 witness: an activities title under a Context that selects every sentence of
\* the branch and a closing has returned six templates in seven sentences.
C16_Witness ==
    /\ FallbackReturned
    /\ Len(AppendedParts) = 6
    /\ Sentences(result[1]) = 7


\* C17: when extract_dynamic_content has returned, on whichever path (blocks
\* scanned, page index out of range, exception during retrieval), the document
\* handle it opened is closed.
C17_HandleClosedOnReturn ==
    (pc = "returned" /\ call.fn = "extract_dynamic_content") => frame.handle # "open"


\* C18: no persona and job text give trip_duration = "long_weekend"; a text that
\* holds "long weekend" is matched by the earlier "weekend" pattern, so the result
\* is "weekend", or a days or weeks value.
C18_LongWeekendNeverReturned ==
    Analysed =>
        /\ context.trip_duration # "long_weekend"
        /\ Contains("long weekend", CombinedText) =>
              \/ context.trip_duration = "weekend"
              \/ EndsWith(context.trip_duration, "_days")
              \/ EndsWith(context.trip_duration, "_weeks")

\* C18 witness: a text holding "long weekend", and neither days nor weeks, has been
\* analysed, with the result "weekend".
C18_Witness ==
    /\ Analysed
    /\ Contains("long weekend", CombinedText)
    /\ context.trip_duration = "weekend"


\* the section type of the title of the call in progress
CalledSectionType == SectionType(lower(call.section_title))

\* what the general section type returns for the title and Context of the call
GeneralText ==
    JoinSpace(GeneralParts(lower(call.section_title), call.context)
              \o ClosingParts(call.context))

GeneralOpening ==
    "This section covers " \o lower(call.section_title)
    \o " with practical information and recommendations."

\* C19: a title classified as accommodation or as transportation returns exactly
\* the text of the general section type for the same title and Context; of the
\* seven named types only guide, activities, culinary, tips and entertainment
\* return sentences of their own.
C19_AccommodationTransportationGeneral ==
    FallbackReturned =>
        /\ CalledSectionType \in {"accommodation", "transportation", "general"} =>
              /\ result[1] = GeneralText
              /\ StartsWith(result[1], GeneralOpening)
        /\ CalledSectionType \in {"guide", "activities", "culinary", "tips", "entertainment"} =>
              /\ ~StartsWith(result[1], "This section covers ")
              /\ result[1] # GeneralText

\* C19 witness: a title classified as accommodation has returned the general text.
C19_Witness ==
    /\ FallbackReturned
    /\ CalledSectionType = "accommodation"
    /\ call.section_title = "Hotels"
    /\ result[1] = GeneralText
    /\ StartsWith(result[1], "This section covers hotels with practical information")

====
